---- MODULE Spec2Model ----
(***************************************************************************)
(* Evidence & Knowledge Governance Engine (claude-governance-central).     *)
(*                                                                         *)
(* The relational store is modelled table by table; a request handler is   *)
(* one action (each handler issues its statements through the shared pool  *)
(* and answers once).  SQL comparison is three-valued: a comparison with   *)
(* NULL selects no row.  Column names of the composed WHERE clause are     *)
(* resolved against evidence_repository_v2, the table both search          *)
(* statements read.                                                        *)
(***************************************************************************)
EXTENDS Integers, Sequences, FiniteSets, TLC

\* SQL NULL, and a request field that was not supplied (undefined binds as NULL)
NULL == "NULL"
\* the same for a numeric field (a timestamp, limit, offset)
NONE == -1

----------------------------------------------------------------------------
\* Bounds of the model

\* rows evidence_repository_v2 may hold
MaxEvidence == 2
\* rows the legacy evidence_repository may hold
MaxLegacy == 1
\* largest value of NOW()
MaxClock == 1
\* rows evidence_repository_v2 may hold when pages are read: one more than the
\* default LIMIT
MaxPage == 101
\* rows hook_configurations_v2 may hold
MaxHooks == 3
\* rows project_knowledge_links may hold
MaxLinks == 3
\* searches between their page query and their count query
MaxSearching == 1
\* rows projects and environments may hold, their seeds included
MaxProjects == 3
MaxEnvironments == 3

----------------------------------------------------------------------------
\* Identity tables (teams, users): read, never written, by the handlers

Teams == {"T1", "T2"}

\* teams.organization
TeamOrganization(t) ==
  CASE t = "T1" -> "O1"
    [] t = "T2" -> "O2"
    [] OTHER -> NULL

Users == {"U1", "U2", "U3"}

\* users.team_id (nullable: U3 belongs to no team)
UserTeam(u) ==
  CASE u = "U1" -> "T1"
    [] u = "U2" -> "T2"
    [] OTHER -> NULL

\* req.user as authMiddleware loads it: users LEFT JOIN teams
ReqUser(u) ==
  [id |-> u, team_id |-> UserTeam(u), organization |-> TeamOrganization(UserTeam(u))]

\* the team and the admin user the V2 migration seeds
DefaultTeam == "T1"
AdminUser == "U0"

\* users.role: 'developer' unless set; a row may carry none
UserRole(u) ==
  CASE u = AdminUser -> "admin"
    [] u = "U1" -> "lead"
    [] u = "U2" -> "developer"
    [] OTHER -> NULL

\* projects / environments row the V3 migration seeds
LegacyProject == "P0"
LegacyEnvironment == "E0"

\* INSERT INTO projects (id, name, description, team_id): the Legacy Project,
\* without a repo_url, owned by the team the seed selects
LegacyProjectRow ==
  [id |-> LegacyProject, name |-> "Legacy Project", repo_url |-> NULL,
   team_id |-> DefaultTeam]

\* INSERT INTO environments (id, project_id, name, type, hostname): the
\* production environment of the Legacy Project, owned by no user
LegacyEnvironmentRow ==
  [id |-> LegacyEnvironment, project_id |-> LegacyProject, name |-> "production",
   type |-> "production", user_id |-> NULL]

----------------------------------------------------------------------------
\* Request inputs

Categories == {"web", "api"}
\* visibility values a request may carry: none, the four levels, an unknown one
VisibilityInputs == {NULL, "private", "team", "organization", "public", "everyone"}
Projects == {LegacyProject, "P1"}
Times == 0..MaxClock

\* req.query of GET /api/evidence/search: every combination of the options
Queries ==
  [category : Categories \cup {NULL},
   user_id : {"U1", "U2", NULL},
   project_id : Projects \cup {NULL},
   from_date : Times \cup {NONE},
   to_date : Times \cup {NONE},
   visibility : VisibilityInputs,
   limit : {NONE, 1},
   offset : {NONE, 1}]

NoQuery ==
  [category |-> NULL, user_id |-> NULL, project_id |-> NULL, from_date |-> NONE,
   to_date |-> NONE, visibility |-> NULL, limit |-> NONE, offset |-> NONE]

\* the options a query supplies besides visibility
Supplied(q) ==
  {f \in {"category", "user_id", "project_id"} : q[f] # NULL}
  \cup {f \in {"from_date", "to_date", "limit", "offset"} : q[f] # NONE}

\* the queries that carry a visibility value and nothing else
VisibilityQueries == {[NoQuery EXCEPT !.visibility = v] : v \in VisibilityInputs}

\* the queries that carry at most one option, under the default visibility
FilterQueries ==
  {NoQuery,
   [NoQuery EXCEPT !.category = "web"], [NoQuery EXCEPT !.category = "api"],
   [NoQuery EXCEPT !.user_id = "U1"], [NoQuery EXCEPT !.project_id = "P1"],
   [NoQuery EXCEPT !.from_date = MaxClock], [NoQuery EXCEPT !.to_date = 0],
   [NoQuery EXCEPT !.limit = 1], [NoQuery EXCEPT !.offset = 1]}

\* req.body of POST /api/evidence (each server reads the fields it knows)
Body(category, type, data, visibility, declared) ==
  [task_id |-> IF declared THEN "K1" ELSE NULL,
   task_category |-> category,
   evidence_type |-> type,
   evidence_data |-> data,
   visibility |-> visibility,
   user_id |-> IF declared THEN "U2" ELSE NULL,
   team_id |-> IF declared THEN "T2" ELSE NULL,
   project_id |-> IF declared THEN "P1" ELSE NULL,
   knowledge_pattern_id |-> NULL,
   coding_standard_id |-> NULL]

NoBody == Body(NULL, NULL, NULL, NULL, FALSE)

\* complete bodies, with or without a visibility and declared identity fields
ValidBodies ==
  {Body("web", "screenshot", "data", v, d) : v \in {NULL, "private"}, d \in BOOLEAN}

\* bodies with a required field missing
InvalidBodies ==
  {Body(NULL, "screenshot", "data", NULL, TRUE),
   Body("web", NULL, "data", NULL, TRUE),
   Body("web", "screenshot", NULL, NULL, TRUE)}

Bodies == ValidBodies \cup InvalidBodies

----------------------------------------------------------------------------
VARIABLES
  evidence,   \* evidence_repository_v2: sequence of rows in insertion order
  legacy,     \* evidence_repository (legacy server): sequence of rows
  now,        \* the store's clock, NOW()
  resp,       \* the response to the last request
  hooks,      \* hook_configurations_v2: sequence of rows in insertion order
  creating,   \* hook creations in flight: what each caller's request has read
  links,      \* project_knowledge_links: sequence of rows in insertion order
  projects,   \* projects: sequence of rows in insertion order
  environments, \* environments: sequence of rows in insertion order
  graph,      \* the graph store: the documents of its collections
  searching   \* evidence searches in flight: the page each has read

\* the tables of the hook registry and of the knowledge bridge
registry == <<hooks, creating, links>>

\* the project tables, the graph store and the searches in flight
catalog == <<projects, environments, graph, searching>>

vars == <<evidence, legacy, now, resp, hooks, creating, links,
          projects, environments, graph, searching>>

Response(op, status, u, q, body, rows, count) ==
  [op |-> op, status |-> status, user |-> u, q |-> q, body |-> body,
   evidence |-> rows, count |-> count]

----------------------------------------------------------------------------
\* SQL comparison: a comparison with NULL is unknown and selects nothing

SqlEq(a, b) == a # NULL /\ b # NULL /\ a = b
SqlGe(a, b) == a # NONE /\ b # NONE /\ a >= b
SqlLe(a, b) == a # NONE /\ b # NONE /\ a <= b

----------------------------------------------------------------------------
\* GET /api/evidence/search

\* visibility = 'team' when the query carries none
RequestedVisibility(q) == IF q.visibility = NULL THEN "team" ELSE q.visibility

Cond(col, op, param) == [col |-> col, op |-> op, param |-> param]

\* faulty variant: the team branch of the visibility filter is missing
VisibilityConditions_NoTeam(user, visibility) ==
  IF visibility = "private" THEN <<Cond("user_id", "=", user.id)>>
  ELSE <<>>

\* the visibility filter pushed first onto whereConditions
VisibilityConditions(user, visibility) ==
  IF visibility = "private" THEN <<Cond("user_id", "=", user.id)>>
  ELSE IF visibility = "team" THEN <<Cond("team_id", "=", user.team_id)>>
  ELSE <<>>

\* the caller-supplied filters pushed after it, in the handler's order
FilterConditions(q) ==
  (IF q.category # NULL THEN <<Cond("task_category", "=", q.category)>> ELSE <<>>)
  \o (IF q.user_id # NULL THEN <<Cond("user_id", "=", q.user_id)>> ELSE <<>>)
  \o (IF q.from_date # NONE THEN <<Cond("created_at", ">=", q.from_date)>> ELSE <<>>)
  \o (IF q.to_date # NONE THEN <<Cond("created_at", "<=", q.to_date)>> ELSE <<>>)

WhereConditions(user, q) ==
  VisibilityConditions(user, RequestedVisibility(q)) \o FilterConditions(q)

CondHolds(row, c) ==
  CASE c.op = "=" -> SqlEq(row[c.col], c.param)
    [] c.op = ">=" -> SqlGe(row[c.col], c.param)
    [] c.op = "<=" -> SqlLe(row[c.col], c.param)

\* faulty variant: the conditions are joined with OR
WhereClause_Or(row, conds) ==
  conds = <<>> \/ \E i \in DOMAIN conds : CondHolds(row, conds[i])

\* whereConditions.join(' AND '); no WHERE at all when the list is empty
WhereClause(row, conds) == \A i \in DOMAIN conds : CondHolds(row, conds[i])

\* ids of the rows the composed filter selects
Matching(ev, user, q) ==
  {i \in DOMAIN ev : WhereClause(ev[i], WhereConditions(user, q))}

\* parseInt(limit), parseInt(offset) with their defaults
DefaultLimit == 100
DefaultOffset == 0
ParsedLimit(q) == IF q.limit = NONE THEN DefaultLimit ELSE q.limit
ParsedOffset(q) == IF q.offset = NONE THEN DefaultOffset ELSE q.offset

\* ORDER BY e.created_at DESC: every order of the ids with created_at
\* non-increasing (the statement leaves the order of equal timestamps open),
\* built from the latest row on
RECURSIVE Orderings(_, _)
Orderings(ev, ids) ==
  IF ids = {} THEN {<<>>}
  ELSE UNION {{<<i>> \o s : s \in Orderings(ev, ids \ {i})} :
                i \in {j \in ids : \A k \in ids : ev[j].created_at >= ev[k].created_at}}

Min(a, b) == IF a <= b THEN a ELSE b

\* LIMIT l OFFSET o over one ordering, as rows
PageOf(ev, s, l, o) ==
  [k \in 1..(IF Len(s) > o THEN Min(l, Len(s) - o) ELSE 0) |-> ev[s[o + k]]]

\* the store rejects a negative LIMIT or OFFSET; the handler's catch answers 500
StatementFails(q) == ParsedLimit(q) < 0 \/ ParsedOffset(q) < 0

\* faulty variant: count is the length of the page, as on the legacy server
SearchEvidence_PageCount(u, q) ==
  LET user == ReqUser(u)
      ids == Matching(evidence, user, q)
  IN  /\ IF StatementFails(q)
         THEN resp' = Response("search", 500, u, q, NoBody, <<>>, 0)
         ELSE \E s \in Orderings(evidence, ids) :
                LET page == PageOf(evidence, s, ParsedLimit(q), ParsedOffset(q))
                IN  resp' = Response("search", 200, u, q, NoBody, page, Len(page))
      /\ UNCHANGED <<evidence, legacy, now>>
      /\ UNCHANGED registry
      /\ UNCHANGED catalog

SearchEvidence(u, q) ==
  LET user == ReqUser(u)
      ids == Matching(evidence, user, q)
  IN  /\ IF StatementFails(q)
         THEN resp' = Response("search", 500, u, q, NoBody, <<>>, 0)
         ELSE \E s \in Orderings(evidence, ids) :
                resp' = Response("search", 200, u, q, NoBody,
                                 PageOf(evidence, s, ParsedLimit(q), ParsedOffset(q)),
                                 Cardinality(ids))
      /\ UNCHANGED <<evidence, legacy, now>>
      /\ UNCHANGED registry
      /\ UNCHANGED catalog

\* The handler's two statements as two steps: other requests may run between
\* the page query and the count query.

\* the page query: a failing statement is answered 500 by the catch, else the
\* handler holds result.rows and awaits the count
BeginSearch(u, q) ==
  /\ IF StatementFails(q)
     THEN /\ resp' = Response("search", 500, u, q, NoBody, <<>>, 0)
          /\ UNCHANGED searching
     ELSE /\ Cardinality(searching) < MaxSearching
          /\ \E s \in Orderings(evidence, Matching(evidence, ReqUser(u), q)) :
               searching' = searching \cup
                 {[user |-> u, q |-> q,
                   rows |-> PageOf(evidence, s, ParsedLimit(q), ParsedOffset(q))]}
          /\ searching' # searching
          /\ UNCHANGED resp
  /\ UNCHANGED <<evidence, legacy, now, projects, environments, graph>>
  /\ UNCHANGED registry

\* faulty variant: count is the number of rows of the page
FinishSearch_PageCount(c) ==
  /\ c \in searching
  /\ searching' = searching \ {c}
  /\ resp' = Response("search", 200, c.user, c.q, NoBody, c.rows, Len(c.rows))
  /\ UNCHANGED <<evidence, legacy, now, projects, environments, graph>>
  /\ UNCHANGED registry

\* the count query, on the table as it is by then, and the response
FinishSearch(c) ==
  /\ c \in searching
  /\ searching' = searching \ {c}
  /\ resp' = Response("search", 200, c.user, c.q, NoBody, c.rows,
                      Cardinality(Matching(evidence, ReqUser(c.user), c.q)))
  /\ UNCHANGED <<evidence, legacy, now, projects, environments, graph>>
  /\ UNCHANGED registry

----------------------------------------------------------------------------
\* POST /api/evidence (authenticated server)

\* faulty variant: evidence_data is not checked
MissingRequired_NoData(body) ==
  body.task_category = NULL \/ body.evidence_type = NULL

\* !task_category || !evidence_type || !evidence_data
MissingRequired(body) ==
  body.task_category = NULL \/ body.evidence_type = NULL \/ body.evidence_data = NULL

\* faulty variant: identity fields of the body win over req.user
NewEvidenceRow_FromBody(user, body, id, t) ==
  [id |-> id,
   task_id |-> NULL,
   user_id |-> IF body.user_id # NULL THEN body.user_id ELSE user.id,
   team_id |-> IF body.team_id # NULL THEN body.team_id ELSE user.team_id,
   task_category |-> body.task_category,
   evidence_type |-> body.evidence_type,
   evidence_data |-> body.evidence_data,
   visibility |-> IF body.visibility = NULL THEN "team" ELSE body.visibility,
   knowledge_pattern_id |-> body.knowledge_pattern_id,
   coding_standard_id |-> body.coding_standard_id,
   project_id |-> NULL,
   environment_id |-> NULL,
   created_at |-> t]

\* the row INSERT INTO evidence_repository_v2 ... RETURNING * stores: user_id
\* and team_id from req.user, visibility = 'team' when the body carries none,
\* the columns the statement does not name at their defaults
NewEvidenceRow(user, body, id, t) ==
  [id |-> id,
   task_id |-> NULL,
   user_id |-> user.id,
   team_id |-> user.team_id,
   task_category |-> body.task_category,
   evidence_type |-> body.evidence_type,
   evidence_data |-> body.evidence_data,
   visibility |-> IF body.visibility = NULL THEN "team" ELSE body.visibility,
   knowledge_pattern_id |-> body.knowledge_pattern_id,
   coding_standard_id |-> body.coding_standard_id,
   project_id |-> NULL,
   environment_id |-> NULL,
   created_at |-> t]

\* t is the value of NOW() when the INSERT runs; the table holds at most cap rows
SubmitEvidenceWithin(cap, u, body, t) ==
  IF MissingRequired(body)
  THEN /\ resp' = Response("submit", 400, u, NoQuery, body, <<>>, 0)
       /\ UNCHANGED <<evidence, legacy, now>>
       /\ UNCHANGED registry
       /\ UNCHANGED catalog
  ELSE /\ Len(evidence) < cap
       /\ t >= now
       /\ LET row == NewEvidenceRow(ReqUser(u), body, Len(evidence) + 1, t)
          IN  /\ evidence' = Append(evidence, row)
              /\ resp' = Response("submit", 201, u, NoQuery, body, <<row>>, 1)
       /\ now' = t
       /\ UNCHANGED legacy
       /\ UNCHANGED registry
       /\ UNCHANGED catalog

SubmitEvidence(u, body, t) == SubmitEvidenceWithin(MaxEvidence, u, body, t)

----------------------------------------------------------------------------
\* POST /api/evidence (legacy server, no authentication)

\* the row INSERT INTO evidence_repository ... RETURNING * stores
NewLegacyRow(body, id, t) ==
  [id |-> id,
   task_id |-> body.task_id,
   task_category |-> body.task_category,
   evidence_type |-> body.evidence_type,
   evidence_data |-> body.evidence_data,
   user_id |-> body.user_id,
   project_id |-> body.project_id,
   created_at |-> t]

\* the columns the legacy INSERT names, typed as CREATE TABLE evidence_repository
\* declares them
LegacyColumns ==
  [task_id |-> "VARCHAR", task_category |-> "VARCHAR", evidence_type |-> "VARCHAR",
   evidence_data |-> "JSONB", user_id |-> "VARCHAR", project_id |-> "VARCHAR",
   created_at |-> "TIMESTAMP"]

\* the same columns of evidence_repository_v2 (project_id as the V3 migration
\* adds it); user_id and project_id are foreign keys
V2Columns ==
  [task_id |-> "UUID", task_category |-> "VARCHAR", evidence_type |-> "VARCHAR",
   evidence_data |-> "JSONB", user_id |-> "UUID", project_id |-> "UUID",
   created_at |-> "TIMESTAMP"]

LegacySubmitEvidence(body, t) ==
  IF MissingRequired(body)
  THEN /\ resp' = Response("legacy_submit", 400, NULL, NoQuery, body, <<>>, 0)
       /\ UNCHANGED <<evidence, legacy, now>>
       /\ UNCHANGED registry
       /\ UNCHANGED catalog
  ELSE /\ Len(legacy) < MaxLegacy
       /\ t >= now
       /\ LET row == NewLegacyRow(body, Len(legacy) + 1, t)
          IN  /\ legacy' = Append(legacy, row)
              /\ resp' = Response("legacy_submit", 201, NULL, NoQuery, body, <<row>>, 1)
       /\ now' = t
       /\ UNCHANGED evidence
       /\ UNCHANGED registry
       /\ UNCHANGED catalog

----------------------------------------------------------------------------
\* V3 migration: UPDATE evidence_repository_v2 SET project_id, environment_id
\* WHERE project_id IS NULL

\* faulty variant: the backfill also reassigns the row to the default team, as the V2
\* migration does for legacy rows
BackfillRow_AssignTeam(row) ==
  IF row.project_id = NULL
  THEN [row EXCEPT !.project_id = LegacyProject, !.environment_id = LegacyEnvironment,
                   !.team_id = "T1"]
  ELSE row

BackfillRow(row) ==
  IF row.project_id = NULL
  THEN [row EXCEPT !.project_id = LegacyProject, !.environment_id = LegacyEnvironment]
  ELSE row

\* INSERT ... ON CONFLICT DO NOTHING: the row is added unless its id is stored
Seeded(table, row) ==
  IF \E i \in DOMAIN table : table[i].id = row.id THEN table ELSE Append(table, row)

\* a run of the script on the migrated schema: the two seeds, then the backfill
MigrateV3 ==
  /\ projects' = Seeded(projects, LegacyProjectRow)
  /\ environments' = Seeded(environments, LegacyEnvironmentRow)
  /\ evidence' = [i \in DOMAIN evidence |-> BackfillRow(evidence[i])]
  /\ resp' = Response("migrate_v3", 200, NULL, NoQuery, NoBody, <<>>, 0)
  /\ UNCHANGED <<legacy, now>>
  /\ UNCHANGED registry
  /\ UNCHANGED <<graph, searching>>

----------------------------------------------------------------------------
\* GET /api/evidence/:id/context

\* ids a request may address: every id the store can assign, and one it cannot
EvidenceIds == 1..(MaxEvidence + 1)

\* the response to a request that addresses one row: the id it carried and the
\* error text of a failure
AddressedResponse(op, status, u, id, rows, error) ==
  Response(op, status, u, NoQuery, NoBody, rows, Len(rows))
    @@ [id |-> id, error |-> error]

\* faulty variant: the row is selected by its id alone
ContextRows_AnyTeam(ev, user, id) ==
  SelectSeq(ev, LAMBDA row : row.id = id)

\* SELECT e.* ... WHERE e.id = $1 AND e.team_id = $2, bound to req.user.team_id
\* (the joined username and full_name are left out of the row)
ContextRows(ev, user, id) ==
  SelectSeq(ev, LAMBDA row : row.id = id /\ SqlEq(row.team_id, user.team_id))

GetEvidenceContext(u, id) ==
  LET rows == ContextRows(evidence, ReqUser(u), id)
  IN  /\ resp' = IF Len(rows) = 0
                 THEN AddressedResponse("context", 404, u, id, <<>>, "Evidence not found")
                 ELSE AddressedResponse("context", 200, u, id, <<rows[1]>>, NULL)
      /\ UNCHANGED <<evidence, legacy, now>>
      /\ UNCHANGED registry
      /\ UNCHANGED catalog

----------------------------------------------------------------------------
\* Hook registry: hook_configurations_v2

\* hook_configurations of the legacy schema (name is UNIQUE there)
LegacyHooks ==
  <<[name |-> "H1", description |-> "D1", enabled |-> "true"],
    [name |-> "H2", description |-> "D2", enabled |-> "true"]>>

\* the collation order of the hook names
NameOrder(name) == IF name = "H1" THEN 1 ELSE 2

\* a row of hook_configurations_v2; version is 1 when the INSERT names none
NewHookRow(id, name, script, enabled, team, by, version, t) ==
  [id |-> id, name |-> name, script_content |-> script, enabled |-> enabled,
   team_id |-> team, version |-> version, created_by |-> by, updated_at |-> t]

\* faulty variant: the table has no UNIQUE constraint
HookUniqueViolation_Dropped(hs, row) == FALSE

\* faulty variant: the constraint also spans created_by
HookUniqueViolation_PerCreator(hs, row) ==
  \E i \in DOMAIN hs :
    /\ SqlEq(hs[i].name, row.name)
    /\ SqlEq(hs[i].team_id, row.team_id)
    /\ hs[i].version = row.version
    /\ SqlEq(hs[i].created_by, row.created_by)

\* UNIQUE(name, team_id, version): a NULL never equals a NULL
HookUniqueViolation(hs, row) ==
  \E i \in DOMAIN hs :
    /\ SqlEq(hs[i].name, row.name)
    /\ SqlEq(hs[i].team_id, row.team_id)
    /\ hs[i].version = row.version

\* the legacy hooks INSERT ... SELECT ... WHERE NOT EXISTS (same name) selects
HooksToMigrate(hs) ==
  SelectSeq(LegacyHooks, LAMBDA l : ~\E i \in DOMAIN hs : SqlEq(hs[i].name, l.name))

\* "Migrate existing hook configurations to V2": one statement, the rows go to
\* the default team at the default version
MigrateHooksV2(t) ==
  LET sel == HooksToMigrate(hooks)
      new == [k \in DOMAIN sel |->
                NewHookRow(Len(hooks) + k, sel[k].name, sel[k].description,
                           sel[k].enabled, DefaultTeam, AdminUser, 1, t)]
  IN  /\ t >= now
      /\ Len(hooks) + Len(new) <= MaxHooks
      /\ hooks' = IF \E k \in DOMAIN new : HookUniqueViolation(hooks, new[k])
                  THEN hooks
                  ELSE hooks \o new
      /\ now' = t
      /\ resp' = [op |-> "migrate_hooks", status |-> 200, user |-> NULL]
      /\ UNCHANGED <<evidence, legacy, creating, links>>
      /\ UNCHANGED catalog

\* ids a request may address: every id the store can assign, and one it cannot
HookIds == 1..(MaxHooks + 1)

\* the response of a hook endpoint: the id the request carried, the rows and
\* the error text it answers
HookResponse(op, status, u, id, rows, error) ==
  [op |-> op, status |-> status, user |-> u, id |-> id, hooks |-> rows,
   count |-> Len(rows), error |-> error]

\* faulty variant: the team of the caller is not compared
HookInScope_AnyTeam(row, user) == TRUE

\* h.team_id = $n bound to req.user.team_id
HookInScope(row, user) == SqlEq(row.team_id, user.team_id)

\* ORDER BY h.name, h.version DESC: every order the statement admits
RECURSIVE HookOrderings(_, _)
HookOrderings(hs, ids) ==
  IF ids = {} THEN {<<>>}
  ELSE UNION {{<<hs[i]>> \o s : s \in HookOrderings(hs, ids \ {i})} :
                i \in {j \in ids : \A k \in ids :
                         \/ NameOrder(hs[j].name) < NameOrder(hs[k].name)
                         \/ /\ NameOrder(hs[j].name) = NameOrder(hs[k].name)
                            /\ hs[j].version >= hs[k].version}}

\* GET /api/hooks
ListHooks(u) ==
  LET ids == {i \in DOMAIN hooks : HookInScope(hooks[i], ReqUser(u))}
  IN  /\ \E rows \in HookOrderings(hooks, ids) :
           resp' = HookResponse("list_hooks", 200, u, NONE, rows, NULL)
      /\ UNCHANGED <<evidence, legacy, now>>
      /\ UNCHANGED registry
      /\ UNCHANGED catalog

\* rows WHERE id = $n AND team_id = $m selects
HookRows(hs, user, id) ==
  {i \in DOMAIN hs : hs[i].id = id /\ HookInScope(hs[i], user)}

\* GET /api/hooks/:id
GetHook(u, id) ==
  LET ids == HookRows(hooks, ReqUser(u), id)
  IN  /\ resp' = IF ids = {}
                 THEN HookResponse("get_hook", 404, u, id, <<>>, "Hook not found")
                 ELSE HookResponse("get_hook", 200, u, id,
                                   <<hooks[CHOOSE i \in ids : TRUE]>>, NULL)
      /\ UNCHANGED <<evidence, legacy, now>>
      /\ UNCHANGED registry
      /\ UNCHANGED catalog

\* faulty variant: the update also bumps the version of the row
UpdatedHookRow_Bump(row, script, enabled, t) ==
  [row EXCEPT !.script_content = script, !.enabled = enabled, !.updated_at = t,
              !.version = @ + 1]

\* SET script_content = $1, enabled = $2, updated_at = NOW()
UpdatedHookRow(row, script, enabled, t) ==
  [row EXCEPT !.script_content = script, !.enabled = enabled, !.updated_at = t]

\* PUT /api/hooks/:id; script_content is NOT NULL, so an update that would
\* store none fails in the store and the catch answers 500
UpdateHook(u, id, script, enabled, t) ==
  LET ids == HookRows(hooks, ReqUser(u), id)
  IN  IF ids = {}
      THEN /\ resp' = HookResponse("update_hook", 404, u, id, <<>>, "Hook not found")
           /\ UNCHANGED <<evidence, legacy, now>>
           /\ UNCHANGED registry
           /\ UNCHANGED catalog
      ELSE IF script = NULL
      THEN /\ resp' = HookResponse("update_hook", 500, u, id, <<>>, "Failed to update hook")
           /\ UNCHANGED <<evidence, legacy, now>>
           /\ UNCHANGED registry
           /\ UNCHANGED catalog
      ELSE /\ t >= now
           /\ hooks' = [i \in DOMAIN hooks |->
                          IF i \in ids THEN UpdatedHookRow(hooks[i], script, enabled, t)
                          ELSE hooks[i]]
           /\ resp' = HookResponse("update_hook", 200, u, id,
                                   <<hooks'[CHOOSE i \in ids : TRUE]>>, NULL)
           /\ now' = t
           /\ UNCHANGED <<evidence, legacy, creating, links>>
           /\ UNCHANGED catalog

----------------------------------------------------------------------------
\* createHookVersion (spec section 4.3): a request reads the versions of its
\* (name, team) and then inserts; requests of several callers interleave

\* the largest version among the rows of (name, team), 0 when there is none
MaxVersion(hs, name, team) ==
  LET vs == {hs[i].version : i \in {j \in DOMAIN hs :
                SqlEq(hs[j].name, name) /\ SqlEq(hs[j].team_id, team)}}
  IN  IF vs = {} THEN 0 ELSE CHOOSE v \in vs : \A w \in vs : v >= w

\* the request in slot k reads max(existing versions) + 1
BeginCreateHook(k, u, name) ==
  /\ ~\E c \in creating : c.slot = k
  /\ creating' = creating \cup
       {[slot |-> k, user |-> u, name |-> name,
         version |-> MaxVersion(hooks, name, UserTeam(u)) + 1]}
  /\ UNCHANGED <<evidence, legacy, now, resp, hooks, links>>
  /\ UNCHANGED catalog

\* the request inserts its row; the store refuses a row that violates the
\* UNIQUE constraint and the request answers a conflict
CommitCreateHook(c, script, t) ==
  LET row == NewHookRow(Len(hooks) + 1, c.name, script, "true", UserTeam(c.user),
                        c.user, c.version, t)
  IN  /\ c \in creating
      /\ creating' = creating \ {c}
      /\ IF HookUniqueViolation(hooks, row)
         THEN /\ resp' = HookResponse("create_hook", 409, c.user, NONE, <<>>, "Conflict")
              /\ UNCHANGED <<hooks, now>>
         ELSE /\ Len(hooks) < MaxHooks
              /\ t >= now
              /\ hooks' = Append(hooks, row)
              /\ resp' = HookResponse("create_hook", 201, c.user, row.id, <<row>>, NULL)
              /\ now' = t
      /\ UNCHANGED <<evidence, legacy, links>>
      /\ UNCHANGED catalog

----------------------------------------------------------------------------
\* Knowledge bridge: project_knowledge_links

\* a row of project_knowledge_links
NewLinkRow(id, project, type, kid, scope, by) ==
  [id |-> id, project_id |-> project, knowledge_type |-> type, knowledge_id |-> kid,
   scope |-> IF scope = NULL THEN "project" ELSE scope, created_by |-> by]

\* faulty variant: the constraint also spans scope
LinkUniqueViolation_PerScope(ls, row) ==
  \E i \in DOMAIN ls :
    /\ SqlEq(ls[i].project_id, row.project_id)
    /\ SqlEq(ls[i].knowledge_type, row.knowledge_type)
    /\ SqlEq(ls[i].knowledge_id, row.knowledge_id)
    /\ SqlEq(ls[i].scope, row.scope)

\* UNIQUE(project_id, knowledge_type, knowledge_id)
LinkUniqueViolation(ls, row) ==
  \E i \in DOMAIN ls :
    /\ SqlEq(ls[i].project_id, row.project_id)
    /\ SqlEq(ls[i].knowledge_type, row.knowledge_type)
    /\ SqlEq(ls[i].knowledge_id, row.knowledge_id)

\* the rows of one (project, type, key)
LinkRows(ls, project, type, kid) ==
  SelectSeq(ls, LAMBDA l : /\ SqlEq(l.project_id, project)
                           /\ SqlEq(l.knowledge_type, type)
                           /\ SqlEq(l.knowledge_id, kid))

LinkResponse(status, u, row, rows) ==
  [op |-> "link", status |-> status, user |-> u, request |-> row, links |-> rows,
   error |-> NULL]

\* link (spec section 4.4): the row is inserted; an insert the UNIQUE
\* constraint refuses is answered with the row that exists
LinkKnowledge(u, project, type, kid, scope) ==
  LET row == NewLinkRow(Len(links) + 1, project, type, kid, scope, u)
  IN  /\ IF LinkUniqueViolation(links, row)
         THEN /\ resp' = LinkResponse(200, u, row,
                                      <<LinkRows(links, project, type, kid)[1]>>)
              /\ UNCHANGED links
         ELSE /\ Len(links) < MaxLinks
              /\ links' = Append(links, row)
              /\ resp' = LinkResponse(201, u, row, <<row>>)
      /\ UNCHANGED <<evidence, legacy, now, hooks, creating>>
      /\ UNCHANGED catalog

----------------------------------------------------------------------------
\* Compliance metrics

\* req.query of GET /api/metrics/compliance
MetricsQuery(from, to, team) == [from_date |-> from, to_date |-> to, team_id |-> team]

\* const { ..., team_id = req.user.team_id } = req.query
MetricsTeam(user, q) == IF q.team_id = NULL THEN user.team_id ELSE q.team_id

\* WHERE team_id = $1 [AND created_at >= $2] [AND created_at <= $3]
MetricsRows(ev, user, q) ==
  {i \in DOMAIN ev :
     /\ SqlEq(ev[i].team_id, MetricsTeam(user, q))
     /\ q.from_date # NONE => SqlGe(ev[i].created_at, q.from_date)
     /\ q.to_date # NONE => SqlLe(ev[i].created_at, q.to_date)}

\* 0.87 as pass_rate, in hundredths
PassRate == 87

\* SELECT task_category, COUNT(*), COUNT(DISTINCT user_id), 0.87 ... GROUP BY
\* task_category
MetricsGroups(ev, rows) ==
  {[task_category |-> c,
    total_verifications |-> Cardinality({i \in rows : ev[i].task_category = c}),
    unique_users |-> Cardinality({ev[i].user_id : i \in {k \in rows :
                        ev[k].task_category = c /\ ev[k].user_id # NULL}}),
    pass_rate |-> PassRate] : c \in {ev[i].task_category : i \in rows}}

\* ORDER BY total_verifications DESC: the orders the store may answer
MetricsOrderings(groups) ==
  {s \in [1..Cardinality(groups) -> groups] :
     /\ \A i, j \in DOMAIN s : s[i] = s[j] => i = j
     /\ \A i, j \in DOMAIN s :
          i < j => s[i].total_verifications >= s[j].total_verifications}

\* GET /api/metrics/compliance
ComplianceMetrics(u, q) ==
  /\ \E metrics \in MetricsOrderings(
          MetricsGroups(evidence, MetricsRows(evidence, ReqUser(u), q))) :
       resp' = [op |-> "metrics", status |-> 200, user |-> u, q |-> q,
                metrics |-> metrics]
  /\ UNCHANGED <<evidence, legacy, now>>
  /\ UNCHANGED registry
  /\ UNCHANGED catalog

----------------------------------------------------------------------------
\* The graph store: raw AQL queries, the knowledge search and the health probe

\* collections of the graph store
Collections == {"knowledge_patterns", "coding_standards", "agent_guidance"}

\* documents the raw queries may write: a collection, a key and the words of
\* the document's text
Documents ==
  {[collection |-> "knowledge_patterns", key |-> "kp-1", words |-> {"Auth", "retry"}],
   [collection |-> "coding_standards", key |-> "std-42", words |-> {"auth"}],
   [collection |-> "agent_guidance", key |-> "ag-1", words |-> {"cache"}]}

\* error.message of a failing store call
GraphError == "ArangoError: AQL: collection or view not found (while parsing)"
PoolError == "connect ECONNREFUSED 10.0.0.5:5432"

\* LOWER(...)
Lower(w) == IF w = "Auth" THEN "auth" ELSE w

\* FILTER CONTAINS(LOWER(TO_STRING(doc)), LOWER(@query))
Contains(doc, query) == \E w \in doc.words : Lower(w) = Lower(query)

\* LIMIT 20
SearchLimit == 20

\* FOR doc IN collection FILTER ... LIMIT 20 RETURN doc: the results the
\* store may answer
CollectionMatches(g, collection, query) ==
  LET m == {doc \in g : doc.collection = collection /\ Contains(doc, query)}
  IN  IF Cardinality(m) <= SearchLimit THEN {m}
      ELSE {r \in SUBSET m : Cardinality(r) = SearchLimit}

\* the response of a graph-store operation: request is the body, sent the
\* statements passed to aqlQuery, failed the collections whose query threw,
\* error the handler's text and detail the store's error.message put into it
KnowledgeResponse(op, status, u, request, sent, failed, results, error, detail) ==
  [op |-> op, status |-> status, user |-> u, request |-> request, sent |-> sent,
   failed |-> failed, results |-> results, error |-> error, detail |-> detail]

\* faulty variant: every role passes
RequireRole_Any(roles, role) == TRUE

\* roles.includes(req.user.role)
RequireRole(roles, role) == role \in roles

\* the AQL statements of the callers: an INSERT of a document, a read of a
\* collection, a statement the store refuses, and none
InsertInto(doc) == [kind |-> "insert", doc |-> doc]
ReadFrom(collection) == [kind |-> "read", collection |-> collection]
Refused == [kind |-> "refused"]
NoAql == [kind |-> NULL]

\* POST /api/knowledge/query behind authMiddleware and requireRole('admin',
\* 'lead'); down is TRUE when the store cannot be reached
ExecuteRawGraphQuery(u, aql, down) ==
  /\ IF u = NULL
     THEN /\ resp' = KnowledgeResponse("raw_query", 401, u, aql, <<>>, {}, {},
                                       "Not authenticated", NULL)
          /\ UNCHANGED graph
     ELSE IF ~RequireRole({"admin", "lead"}, UserRole(u))
     THEN /\ resp' = KnowledgeResponse("raw_query", 403, u, aql, <<>>, {}, {},
                                       "Insufficient permissions", NULL)
          /\ UNCHANGED graph
     ELSE IF aql.kind = NULL
     THEN /\ resp' = KnowledgeResponse("raw_query", 400, u, aql, <<>>, {}, {},
                                       "AQL query required", NULL)
          /\ UNCHANGED graph
     ELSE IF down \/ aql.kind = "refused"
     THEN /\ resp' = KnowledgeResponse("raw_query", 500, u, aql, <<aql>>, {}, {},
                                       "Query execution failed: ", GraphError)
          /\ UNCHANGED graph
     ELSE IF aql.kind = "insert"
     THEN /\ graph' = graph \cup {aql.doc}
          /\ resp' = KnowledgeResponse("raw_query", 200, u, aql, <<aql>>, {},
                                       {aql.doc}, NULL, NULL)
     ELSE /\ UNCHANGED graph
          /\ resp' = KnowledgeResponse("raw_query", 200, u, aql, <<aql>>, {},
                 {doc \in graph : doc.collection = aql.collection}, NULL, NULL)
  /\ UNCHANGED <<evidence, legacy, now, projects, environments, searching>>
  /\ UNCHANGED registry

\* the collections searched when the body names none
DefaultCollections == {"knowledge_patterns", "agent_guidance", "learning_instructions"}

\* faulty variant: one failing collection empties every result
SearchResults_FailAll(g, query, collections, failing) ==
  {r \in [collections -> SUBSET g] :
     \A c \in collections :
       IF failing # {} THEN r[c] = {} ELSE r[c] \in CollectionMatches(g, c, query)}

\* the results objects the loop over the collections may build: a collection
\* whose query throws gets [], every other one what the store answers
SearchResults(g, query, collections, failing) ==
  {r \in [collections -> SUBSET g] :
     \A c \in collections :
       IF c \in failing THEN r[c] = {} ELSE r[c] \in CollectionMatches(g, c, query)}

\* POST /api/knowledge/search; failing are the collections whose query throws
\* (a collection the store does not hold among them)
\* named is <<>> when the body carries no collections, else <<the list>>
SearchKnowledge(u, query, named, failing) ==
  LET collections == IF named = <<>> THEN DefaultCollections ELSE named[1]
      body == [query |-> query, collections |-> named]
  IN  /\ IF query = NULL
         THEN resp' = KnowledgeResponse("search_knowledge", 400, u, body, <<>>, {},
                                        <<>>, "Search query required", NULL)
         ELSE /\ (collections \ Collections) \subseteq failing
              /\ failing \subseteq collections
              /\ \E r \in SearchResults(graph, query, collections, failing) :
                   resp' = KnowledgeResponse("search_knowledge", 200, u, body,
                             <<>>, failing, r, NULL, NULL)
      /\ UNCHANGED <<evidence, legacy, now>>
      /\ UNCHANGED registry
      /\ UNCHANGED catalog

\* GET /health: SELECT 1 on the pool, then the graph store's connection test
Health(poolDown, graphDown) ==
  /\ IF poolDown
     THEN resp' = KnowledgeResponse("health", 500, NULL, NULL, <<>>, {}, <<>>,
                                    "unhealthy", PoolError)
     ELSE resp' = KnowledgeResponse("health", 200, NULL, NULL, <<>>, {}, <<>>,
                    IF graphDown THEN "disconnected" ELSE "connected", NULL)
  /\ UNCHANGED <<evidence, legacy, now>>
  /\ UNCHANGED registry
  /\ UNCHANGED catalog

----------------------------------------------------------------------------
\* Projects and environments (V3 schema); createProject, createEnvironment and
\* the deletion of a project follow spec sections 3 and 7

\* the response of a project operation: its arguments, the rows and the
\* error kind it answers
ProjectResponse(op, status, u, request, rows, error) ==
  [op |-> op, status |-> status, user |-> u, request |-> request, rows |-> rows,
   error |-> error]

\* faulty variant: the constraint spans repo_url alone
ProjectUniqueViolation_RepoOnly(ps, row) ==
  \E i \in DOMAIN ps : SqlEq(ps[i].repo_url, row.repo_url)

\* UNIQUE(repo_url, team_id)
ProjectUniqueViolation(ps, row) ==
  \E i \in DOMAIN ps :
    SqlEq(ps[i].repo_url, row.repo_url) /\ SqlEq(ps[i].team_id, row.team_id)

\* createProject: the row is inserted for the caller's team under a fresh id;
\* an insert the UNIQUE constraint refuses is answered with a conflict
CreateProject(u, id, name, repo) ==
  LET row == [id |-> id, name |-> name, repo_url |-> repo, team_id |-> UserTeam(u)]
  IN  /\ ~\E i \in DOMAIN projects : projects[i].id = id
      /\ IF ProjectUniqueViolation(projects, row)
         THEN /\ resp' = ProjectResponse("create_project", 409, u, row, <<>>,
                                         "ConflictError")
              /\ UNCHANGED projects
         ELSE /\ Len(projects) < MaxProjects
              /\ projects' = Append(projects, row)
              /\ resp' = ProjectResponse("create_project", 201, u, row, <<row>>, NULL)
      /\ UNCHANGED <<evidence, legacy, now, environments, graph, searching>>
      /\ UNCHANGED registry

\* UNIQUE(project_id, name, user_id): a NULL never equals a NULL
EnvironmentUniqueViolation(es, row) ==
  \E i \in DOMAIN es :
    /\ SqlEq(es[i].project_id, row.project_id)
    /\ SqlEq(es[i].name, row.name)
    /\ SqlEq(es[i].user_id, row.user_id)

\* project_id REFERENCES projects(id)
ProjectStored(ps, id) == \E i \in DOMAIN ps : ps[i].id = id

\* createEnvironment: a local environment belongs to the caller, a shared or
\* production one to no user; the project must be stored
CreateEnvironment(u, id, project, name, type) ==
  LET row == [id |-> id, project_id |-> project, name |-> name, type |-> type,
              user_id |-> IF type = "local" THEN u ELSE NULL]
  IN  /\ ~\E i \in DOMAIN environments : environments[i].id = id
      /\ IF ~ProjectStored(projects, project)
         THEN /\ resp' = ProjectResponse("create_environment", 404, u, row, <<>>,
                                         "NotFoundError")
              /\ UNCHANGED environments
         ELSE IF EnvironmentUniqueViolation(environments, row)
         THEN /\ resp' = ProjectResponse("create_environment", 409, u, row, <<>>,
                                         "ConflictError")
              /\ UNCHANGED environments
         ELSE /\ Len(environments) < MaxEnvironments
              /\ environments' = Append(environments, row)
              /\ resp' = ProjectResponse("create_environment", 201, u, row, <<row>>,
                                         NULL)
      /\ UNCHANGED <<evidence, legacy, now, projects, graph, searching>>
      /\ UNCHANGED registry

\* faulty variant: every reference to a project cascades or is set to null
ProjectDeleteBlocked_Never(ev, es, id) == FALSE

\* evidence_repository_v2.project_id REFERENCES projects(id) and
\* environment_id REFERENCES environments(id) name no ON DELETE action: a row
\* that references the project, or an environment the delete cascades to,
\* makes the store refuse the delete
ProjectDeleteBlocked(ev, es, id) ==
  \E i \in DOMAIN ev :
    \/ SqlEq(ev[i].project_id, id)
    \/ \E k \in DOMAIN es :
         SqlEq(es[k].project_id, id) /\ SqlEq(ev[i].environment_id, es[k].id)

\* deletion of a project: environments and knowledge links of the project go
\* with it (ON DELETE CASCADE) unless the store refuses the delete
DeleteProject(u, id) ==
  /\ IF ~ProjectStored(projects, id)
     THEN /\ resp' = ProjectResponse("delete_project", 404, u, id, <<>>, "NotFoundError")
          /\ UNCHANGED <<projects, environments, links>>
     ELSE IF ProjectDeleteBlocked(evidence, environments, id)
     THEN /\ resp' = ProjectResponse("delete_project", 409, u, id, <<>>, "ConflictError")
          /\ UNCHANGED <<projects, environments, links>>
     ELSE /\ projects' = SelectSeq(projects, LAMBDA p : p.id # id)
          /\ environments' = SelectSeq(environments, LAMBDA e : e.project_id # id)
          /\ links' = SelectSeq(links, LAMBDA l : l.project_id # id)
          /\ resp' = ProjectResponse("delete_project", 200, u, id, <<>>, NULL)
  /\ UNCHANGED <<evidence, legacy, now, hooks, creating, graph, searching>>

----------------------------------------------------------------------------
Init ==
  /\ evidence = <<>>
  /\ legacy = <<>>
  /\ now = 0
  /\ resp = Response("none", 0, NULL, NoQuery, NoBody, <<>>, 0)
  /\ hooks = <<>>
  /\ creating = {}
  /\ links = <<>>
  /\ projects = <<LegacyProjectRow>>
  /\ environments = <<LegacyEnvironmentRow>>
  /\ graph = {}
  /\ searching = {}

\* the authenticated server's evidence endpoints, searched by visibility
Next ==
  \/ \E u \in Users, body \in Bodies, t \in Times : SubmitEvidence(u, body, t)
  \/ \E u \in Users, q \in VisibilityQueries : SearchEvidence(u, q)

Spec == Init /\ [][Next]_vars

\* the same endpoints, searched with caller-supplied filters
NextFilter ==
  \/ \E u \in Users, body \in Bodies, t \in Times : SubmitEvidence(u, body, t)
  \/ \E u \in Users, q \in FilterQueries : SearchEvidence(u, q)

SpecFilter == Init /\ [][NextFilter]_vars

\* the two submission paths side by side
SubmitCallers == {"U1", "U3"}

NextSubmit ==
  \/ \E u \in SubmitCallers, body \in Bodies, t \in Times : SubmitEvidence(u, body, t)
  \/ \E body \in Bodies, t \in Times : LegacySubmitEvidence(body, t)

SpecSubmit == Init /\ [][NextSubmit]_vars

\* submissions interleaved with runs of the V3 migration script
NextMigrate ==
  \/ \E u \in Users, body \in Bodies, t \in Times : SubmitEvidence(u, body, t)
  \/ MigrateV3

SpecMigrate == Init /\ [][NextMigrate]_vars

\* bodies of team-wide and of public evidence
ContextBodies ==
  {Body("web", "screenshot", "data", v, d) : v \in {NULL, "public"}, d \in BOOLEAN}

\* submissions followed by reads of single rows
NextContext ==
  \/ \E u \in Users, body \in ContextBodies, t \in Times : SubmitEvidence(u, body, t)
  \/ \E u \in Users, id \in EvidenceIds : GetEvidenceContext(u, id)

SpecContext == Init /\ [][NextContext]_vars

\* limit and offset as a request may carry them: none, above the default
\* limit, negative
PageQueries ==
  {NoQuery, [NoQuery EXCEPT !.limit = 1000], [NoQuery EXCEPT !.limit = 1],
   [NoQuery EXCEPT !.offset = 1], [NoQuery EXCEPT !.offset = -2]}

\* one caller fills the table, a row per tick of the clock, and reads pages
NextPage ==
  \/ SubmitEvidenceWithin(MaxPage, "U1", Body("web", "screenshot", "data", NULL, FALSE),
                          now + 1)
  \/ \E q \in PageQueries : SearchEvidence("U1", q)

SpecPage == Init /\ [][NextPage]_vars

\* script_content and enabled as a PUT body may carry them
ScriptInputs == {"S2", NULL}
EnabledInputs == {"false", NULL}

\* the hook endpoints over the migrated hooks
NextHooks ==
  \/ \E t \in Times : MigrateHooksV2(t)
  \/ \E u \in Users : ListHooks(u)
  \/ \E u \in Users, id \in HookIds : GetHook(u, id)
  \/ \E u \in Users, id \in HookIds, script \in ScriptInputs,
        enabled \in EnabledInputs, t \in Times : UpdateHook(u, id, script, enabled, t)

SpecHooks == Init /\ [][NextHooks]_vars

HookNames == {"H1", "H2"}

\* the requests that may be in flight at once, by members of a team: two
\* sessions of U1, or U1 and U2
CreateRequests == {<<1, "U1">>, <<2, "U1">>, <<2, "U2">>}

\* hook creations of several callers, interleaved with the migration
NextHookCreate ==
  \/ \E t \in Times : MigrateHooksV2(t)
  \/ \E r \in CreateRequests, name \in HookNames : BeginCreateHook(r[1], r[2], name)
  \/ \E c \in creating, t \in Times : CommitCreateHook(c, "S1", t)

SpecHookCreate == Init /\ [][NextHookCreate]_vars

\* link requests: one triple linked by two callers with two scopes, and the
\* triples that differ from it in one column
LinkRequests ==
  {<<"U1", "P1", "standard", "std-42", NULL>>,
   <<"U2", "P1", "standard", "std-42", "global">>,
   <<"U1", LegacyProject, "standard", "std-42", NULL>>,
   <<"U1", "P1", "pattern", "std-42", NULL>>,
   <<"U1", "P1", "standard", "pat-7", "global">>}

\* links of knowledge documents to projects
NextLinks ==
  \E r \in LinkRequests : LinkKnowledge(r[1], r[2], r[3], r[4], r[5])

SpecLinks == Init /\ [][NextLinks]_vars

\* a valid submission that declares nothing
PlainBody == Body("web", "screenshot", "data", NULL, FALSE)

\* callers of the raw query: an admin, a lead, a developer, a user without a
\* role and a request without a user
QueryCallers == {AdminUser, "U1", "U2", "U3", NULL}

\* statements of the raw query
AqlInputs ==
  {InsertInto(doc) : doc \in Documents} \cup {ReadFrom("knowledge_patterns"), Refused, NoAql}

\* search bodies <<query, collections>> and the collections that fail
SearchInputs ==
  {<<"auth", <<>>>>, <<"AUTH", <<>>>>, <<NULL, <<>>>>,
   <<"auth", <<{"knowledge_patterns", "coding_standards"}>>>>,
   <<"cache", <<{"agent_guidance", "coding_standards"}>>>>}
FailingInputs == {{}, {"coding_standards"}, {"learning_instructions"},
                  {"knowledge_patterns", "learning_instructions"}}

\* raw queries, knowledge searches and health probes
NextKnowledge ==
  \/ \E u \in QueryCallers, aql \in AqlInputs, down \in BOOLEAN :
       ExecuteRawGraphQuery(u, aql, down)
  \/ \E b \in SearchInputs, failing \in FailingInputs :
       SearchKnowledge("U2", b[1], b[2], failing)
  \/ \E poolDown \in BOOLEAN, graphDown \in BOOLEAN : Health(poolDown, graphDown)

SpecKnowledge == Init /\ [][NextKnowledge]_vars

\* submissions that reference a knowledge pattern or a coding standard
KnowledgeBodies ==
  {[PlainBody EXCEPT !.knowledge_pattern_id = "kp-1"],
   [PlainBody EXCEPT !.coding_standard_id = "std-42"]}

\* writes of graph documents and of the evidence rows that reference them
NextBridge ==
  \/ \E doc \in Documents : ExecuteRawGraphQuery(AdminUser, InsertInto(doc), FALSE)
  \/ \E body \in KnowledgeBodies, t \in Times : SubmitEvidence("U1", body, t)

SpecBridge == Init /\ [][NextBridge]_vars

\* metrics queries: none, another tenant's team, the caller's team, and a date
\* on either side
MetricsQueries ==
  {MetricsQuery(NONE, NONE, NULL), MetricsQuery(NONE, NONE, "T2"),
   MetricsQuery(NONE, NONE, "T1"), MetricsQuery(MaxClock, NONE, NULL),
   MetricsQuery(NONE, 0, NULL)}

\* submissions of two teams and the metrics of a member of T1 and of a user
\* without a team
NextMetrics ==
  \/ \E u \in {"U1", "U2"}, category \in {"web", "api"}, t \in Times :
       SubmitEvidence(u, Body(category, "screenshot", "data", NULL, FALSE), t)
  \/ \E u \in {"U1", "U3"}, q \in MetricsQueries : ComplianceMetrics(u, q)

SpecMetrics == Init /\ [][NextMetrics]_vars

\* searches that page through the caller's team
RaceQueries ==
  {NoQuery, [NoQuery EXCEPT !.limit = 1], [NoQuery EXCEPT !.offset = 1],
   [NoQuery EXCEPT !.offset = -2]}

\* searches of U1 whose two queries interleave with submissions of U1 and U2
NextRace ==
  \/ \E u \in {"U1", "U2"}, t \in Times : SubmitEvidence(u, PlainBody, t)
  \/ \E q \in RaceQueries : BeginSearch("U1", q)
  \/ \E c \in searching : FinishSearch(c)

SpecRace == Init /\ [][NextRace]_vars

\* project requests <<caller, id, name, repo_url>>: one repository created
\* twice under team T1 and once under team T2, and another repository
ProjectRequests ==
  {<<"U1", "P1", "y", "git@x/y.git">>,
   <<"U1", "P2", "y2", "git@x/y.git">>,
   <<"U2", "P3", "y", "git@x/y.git">>,
   <<"U1", "P4", "z", "git@x/z.git">>}

\* environment requests <<caller, id, project, name, type>>: one local name
\* created twice by U1 and once by U2, a second production environment of
\* the Legacy Project, and an environment of another project
EnvironmentRequests ==
  {<<"U1", "E1", LegacyProject, "local", "local">>,
   <<"U1", "E2", LegacyProject, "local", "local">>,
   <<"U2", "E3", LegacyProject, "local", "local">>,
   <<"U1", "E4", LegacyProject, "production", "production">>,
   <<"U1", "E5", "P1", "local", "local">>}

\* creation of projects and environments
NextProjects ==
  \/ \E r \in ProjectRequests : CreateProject(r[1], r[2], r[3], r[4])
  \/ \E r \in EnvironmentRequests : CreateEnvironment(r[1], r[2], r[3], r[4], r[5])

SpecProjects == Init /\ [][NextProjects]_vars

\* deletions of projects that evidence rows, environments and links reference
NextProjectDelete ==
  \/ \E t \in Times : SubmitEvidence("U1", PlainBody, t)
  \/ MigrateV3
  \/ CreateProject("U1", "P1", "y", "git@x/y.git")
  \/ \E r \in {<<"U1", "E4", LegacyProject, "production", "production">>,
                <<"U1", "E5", "P1", "local", "local">>} :
       CreateEnvironment(r[1], r[2], r[3], r[4], r[5])
  \/ \E project \in {LegacyProject, "P1"} :
       LinkKnowledge("U1", project, "standard", "std-42", NULL)
  \/ \E id \in {LegacyProject, "P1"} : DeleteProject(AdminUser, id)

SpecProjectDelete == Init /\ [][NextProjectDelete]_vars

----------------------------------------------------------------------------
\* Properties of the evidence endpoints

\* ids of the rows a search response carries
PageIds == {resp.evidence[k].id : k \in DOMAIN resp.evidence}

\* a search response that is not cut by LIMIT / OFFSET
WholeResult == resp.op = "search" /\ resp.q.limit = NONE /\ resp.q.offset = NONE

WithVisibility(q, v) == [q EXCEPT !.visibility = v]

\* C1: visibility narrowing is monotonic: the rows a caller gets with
\* visibility=private are among the rows the same caller gets with
\* visibility=team, those among the rows of visibility=organization, and those
\* among the rows of visibility=public, all other filters equal.
C1_VisibilityMonotonic ==
  WholeResult =>
    LET rows(v) == Matching(evidence, ReqUser(resp.user), WithVisibility(resp.q, v))
    IN  /\ resp.q.visibility = "private" => PageIds \subseteq rows("team")
        /\ resp.q.visibility \in {NULL, "team"} => PageIds \subseteq rows("organization")
        /\ resp.q.visibility = "organization" => PageIds \subseteq rows("public")

SameOrganizationRows(u) ==
  {i \in DOMAIN evidence :
     SqlEq(TeamOrganization(evidence[i].team_id), TeamOrganization(UserTeam(u)))}

\* C3: a search with visibility=organization returns exactly the rows whose
\* owning team has the organization of the caller's team.
C3_OrganizationSearchExact ==
  (WholeResult /\ resp.q.visibility = "organization" /\ Supplied(resp.q) = {}) =>
    PageIds = SameOrganizationRows(resp.user)

\* C4: an unknown visibility value fails closed: the search returns only rows
\* of the caller's team, as visibility=team does.
C4_UnknownVisibilityFailsClosed ==
  (WholeResult /\ resp.q.visibility \notin {NULL, "private", "team", "organization", "public"}) =>
    /\ \A k \in DOMAIN resp.evidence : resp.evidence[k].team_id = UserTeam(resp.user)
    /\ PageIds = Matching(evidence, ReqUser(resp.user), WithVisibility(resp.q, "team"))

\* C5: a row stored with visibility=private is never returned by a search to
\* a caller other than the user who owns the row.
C5_PrivateRowsOwnerOnly ==
  resp.op = "search" =>
    \A k \in DOMAIN resp.evidence :
      resp.evidence[k].visibility = "private" => resp.evidence[k].user_id = resp.user

FilterNames == {"category", "user_id", "project_id", "from_date", "to_date"}

\* q with the option f not supplied
Without(q, f) ==
  IF f \in {"category", "user_id", "project_id"}
  THEN [q EXCEPT ![f] = NULL]
  ELSE [q EXCEPT ![f] = NONE]

\* q with no caller-supplied filter: the visibility predicate alone
VisibilityOnly(q) == WithVisibility(NoQuery, q.visibility)

\* every combination of the five filters under visibility v
CombinedQueries(v) ==
  [category : {"web", NULL}, user_id : {"U1", NULL}, project_id : {"P1", NULL},
   from_date : {MaxClock, NONE}, to_date : {0, NONE},
   visibility : {v}, limit : {NONE}, offset : {NONE}]

MatchesSupplied(row, q) ==
  /\ q.category # NULL => row.task_category = q.category
  /\ q.user_id # NULL => row.user_id = q.user_id
  /\ q.project_id # NULL => row.project_id = q.project_id
  /\ q.from_date # NONE => row.created_at >= q.from_date
  /\ q.to_date # NONE => row.created_at <= q.to_date

C8_SubmitStampsCaller ==
  (resp.op = "submit" /\ resp.status = 201) =>
    /\ Len(resp.evidence) = 1
    /\ resp.evidence[1].user_id = resp.user
    /\ resp.evidence[1].team_id = UserTeam(resp.user)
    /\ evidence[Len(evidence)] = resp.evidence[1]

\* C8 witness: a submit by U1 whose body declares another user and team.
C8_Witness ==
  /\ resp.op = "submit" /\ resp.status = 201 /\ resp.user = "U1"
  /\ resp.body.user_id = "U2" /\ resp.body.team_id = "T2"

\* the response answers a submission whose body lacks a required field
SubmitLacksField(r) ==
  /\ r.op \in {"submit", "legacy_submit"}
  /\ \/ r.body.task_category = NULL
     \/ r.body.evidence_type = NULL
     \/ r.body.evidence_data = NULL

\* C9: a submission with task_category, evidence_type or evidence_data missing
\* is answered 400 (validation error) and stores nothing, on the authenticated
\* and on the legacy path.
C9_MissingFieldRejected ==
  [][SubmitLacksField(resp') =>
       /\ resp'.status = 400
       /\ evidence' = evidence
       /\ legacy' = legacy]_vars

\* C9 witness: a legacy submission without evidence_data was rejected while
\* both tables hold rows.
C9_Witness ==
  /\ resp.op = "legacy_submit" /\ resp.status = 400
  /\ resp.body.evidence_data = NULL /\ resp.body.task_category # NULL
  /\ Len(evidence) > 0 /\ Len(legacy) > 0

\* C10: evidence is append-only: every stored row stays present with all of
\* its fields unchanged.
C10_AppendOnly ==
  [][\A i \in DOMAIN evidence :
       i \in DOMAIN evidence' /\ evidence'[i] = evidence[i]]_vars

\* C10 amended: rows are never deleted and no request handler updates one; the
\* V3 migration's backfill alone updates rows, and only by setting project_id
\* and environment_id on rows whose project_id is null.
C10_AppendOnlyButBackfill ==
  [][\A i \in DOMAIN evidence :
       /\ i \in DOMAIN evidence'
       /\ [evidence'[i] EXCEPT !.project_id = NULL, !.environment_id = NULL]
            = [evidence[i] EXCEPT !.project_id = NULL, !.environment_id = NULL]
       /\ evidence[i].project_id # NULL => evidence'[i] = evidence[i]
       /\ evidence'[i] # evidence[i] => resp'.op = "migrate_v3"]_vars

\* C10 witness: the migration has backfilled a stored row.
C10_Witness ==
  /\ resp.op = "migrate_v3"
  /\ \E i \in DOMAIN evidence :
       evidence[i].project_id = LegacyProject /\ evidence[i].environment_id = LegacyEnvironment

\* the fields of a submitted body the caller supplied, as the stored row
\* should carry them
CarriesSubmitted(row, body) ==
  /\ row.task_category = body.task_category
  /\ row.evidence_type = body.evidence_type
  /\ row.evidence_data = body.evidence_data
  /\ body.task_id # NULL => row.task_id = body.task_id
  /\ body.project_id # NULL => row.project_id = body.project_id
  /\ body.visibility # NULL => row.visibility = body.visibility

\* C11: round trip: after an accepted submit, getEvidenceContext of the new id
\* by a caller of the same team returns a record that carries every submitted
\* field (task_id, project_id and visibility when supplied) plus the
\* server-assigned id and created_at.
C11_RoundTrip ==
  [][(/\ resp.op = "submit" /\ resp.status = 201
      /\ resp'.op = "context" /\ resp'.id = resp.evidence[1].id
      /\ SqlEq(UserTeam(resp'.user), UserTeam(resp.user))) =>
       /\ resp'.status = 200
       /\ Len(resp'.evidence) = 1
       /\ resp'.evidence[1].id = resp.evidence[1].id
       /\ resp'.evidence[1].created_at = resp.evidence[1].created_at
       /\ CarriesSubmitted(resp'.evidence[1], resp.body)]_vars

\* the addressed id is stored
Stored(id) == \E i \in DOMAIN evidence : evidence[i].id = id

\* the addressed id is stored for a team other than the caller's
Foreign(id, u) == \E i \in DOMAIN evidence :
  evidence[i].id = id /\ evidence[i].team_id # UserTeam(u)

\* C19: getEvidenceContext returns a row only when it is stored under the
\* addressed id with the caller's team_id; for an id of another team it answers
\* the same NotFound as for an id that is not stored, whatever the row's
\* visibility.
C19_ContextTeamScoped ==
  resp.op = "context" =>
    /\ resp.status = 200 =>
         /\ Len(resp.evidence) = 1
         /\ resp.evidence[1].id = resp.id
         /\ resp.evidence[1].team_id = UserTeam(resp.user)
         /\ \E i \in DOMAIN evidence : evidence[i] = resp.evidence[1]
    /\ (~Stored(resp.id) \/ Foreign(resp.id, resp.user)) =>
         /\ resp.status = 404
         /\ resp.evidence = <<>>
         /\ resp.error = "Evidence not found"

\* C19 witness: U1 addressed a public row of team T2 and was answered NotFound.
C19_Witness ==
  /\ resp.op = "context" /\ resp.user = "U1" /\ resp.status = 404
  /\ \E i \in DOMAIN evidence :
       /\ evidence[i].id = resp.id
       /\ evidence[i].team_id = "T2"
       /\ evidence[i].visibility = "public"

\* C12: search results are ordered by created_at descending, rows of equal
\* created_at by ascending id (insertion order), so the order of a result is
\* determined by the store and the filter; created_at never decreases along
\* insertion order.
C12_SearchOrdered ==
  /\ \A i, j \in DOMAIN evidence :
       i < j => evidence[i].created_at <= evidence[j].created_at
  /\ resp.op = "search" =>
       \A k, l \in DOMAIN resp.evidence :
         k < l =>
           \/ resp.evidence[k].created_at > resp.evidence[l].created_at
           \/ /\ resp.evidence[k].created_at = resp.evidence[l].created_at
              /\ resp.evidence[k].id < resp.evidence[l].id

\* rows that satisfy the visibility predicate of q and each supplied filter,
\* whatever limit and offset q carries
Satisfying(u, q) ==
  {i \in DOMAIN evidence :
     /\ WhereClause(evidence[i], VisibilityConditions(ReqUser(u), RequestedVisibility(q)))
     /\ WhereClause(evidence[i], FilterConditions(q))}

----------------------------------------------------------------------------
\* Properties of the hook registry

Unwritten(row) ==
  [row EXCEPT !.script_content = NULL, !.enabled = NULL, !.updated_at = NONE]

\* C16: updateHookInPlace changes only script_content, enabled and updated_at
\* of the addressed row: version, name and team_id stay, no row is added, and
\* every other row stays as it was.
C16_UpdateInPlace ==
  [][resp'.op = "update_hook" =>
       /\ DOMAIN hooks' = DOMAIN hooks
       /\ \A i \in DOMAIN hooks :
            /\ Unwritten(hooks'[i]) = Unwritten(hooks[i])
            /\ hooks[i].id # resp'.id => hooks'[i] = hooks[i]
       /\ resp'.status = 200 =>
            /\ Len(resp'.hooks) = 1
            /\ resp'.hooks[1].id = resp'.id
            /\ \E i \in DOMAIN hooks' : hooks'[i] = resp'.hooks[1]]_vars

\* C16 witness: an update rewrote the script and the flag of one migrated hook
\* at a later time; its version is still 1 and the other hook is as migrated.
C16_Witness ==
  /\ resp.op = "update_hook" /\ resp.status = 200
  /\ resp.hooks[1].script_content = "S2" /\ resp.hooks[1].enabled = "false"
  /\ resp.hooks[1].updated_at = MaxClock /\ resp.hooks[1].version = 1
  /\ \E i \in DOMAIN hooks :
       /\ hooks[i].id # resp.id
       /\ hooks[i].script_content = "D2" /\ hooks[i].updated_at = 0

\* the addressed hook id is not stored, or is stored for another team
HookOutOfScope(hs, id, u) ==
  \A i \in DOMAIN hs : hs[i].id = id => hs[i].team_id # UserTeam(u)

\* C18: hook operations are team-scoped: listHooks returns only rows of the
\* caller's team; getHook and updateHookInPlace addressed to a hook of another
\* team answer the NotFound of an id that is not stored, and the update then
\* leaves every hook unchanged.
C18_HooksTeamScoped ==
  [][/\ resp'.op = "list_hooks" =>
          \A k \in DOMAIN resp'.hooks : resp'.hooks[k].team_id = UserTeam(resp'.user)
     /\ resp'.op \in {"get_hook", "update_hook"} =>
          /\ resp'.status = 200 =>
               \A k \in DOMAIN resp'.hooks : resp'.hooks[k].team_id = UserTeam(resp'.user)
          /\ HookOutOfScope(hooks, resp'.id, resp'.user) =>
               /\ resp'.status = 404
               /\ resp'.hooks = <<>>
               /\ resp'.error = "Hook not found"
               /\ hooks' = hooks]_vars

\* C18 witness: U2, of team T2, addressed an update to a hook of team T1 and
\* was answered NotFound.
C18_Witness ==
  /\ resp.op = "update_hook" /\ resp.user = "U2" /\ resp.status = 404
  /\ \E i \in DOMAIN hooks : hooks[i].id = resp.id /\ hooks[i].team_id = "T1"

----------------------------------------------------------------------------
\* Properties of the knowledge bridge

SameTriple(a, b) ==
  /\ a.project_id = b.project_id
  /\ a.knowledge_type = b.knowledge_type
  /\ a.knowledge_id = b.knowledge_id

SameRepoTeam(a, b) == a.repo_url = b.repo_url /\ a.team_id = b.team_id

C23_EnvironmentsUnique ==
  \A i, j \in DOMAIN environments :
    (/\ environments[i].project_id = environments[j].project_id
     /\ environments[i].name = environments[j].name
     /\ environments[i].user_id = environments[j].user_id) => i = j

\* C24: the deletion of a stored project succeeds whatever evidence references
\* it; the evidence rows stay and their project_id becomes null.
C24_DeleteNotBlocked ==
  [][(resp'.op = "delete_project" /\ ProjectStored(projects, resp'.request)) =>
       /\ resp'.status = 200
       /\ ~ProjectStored(projects', resp'.request)
       /\ Len(evidence') = Len(evidence)
       /\ \A i \in DOMAIN evidence :
            evidence'[i] =
              IF evidence[i].project_id = resp'.request
              THEN [evidence[i] EXCEPT !.project_id = NULL]
              ELSE evidence[i]]_vars

\* keys of the documents the graph store holds
GraphKeys(g) == {doc.key : doc \in g}

\* C21: whenever an evidence row carrying knowledge_pattern_id or
\* coding_standard_id, or a knowledge link, is written, the graph document it
\* references was written before.
C21_ContentBeforeReference ==
  [][/\ \A i \in DOMAIN evidence' \ DOMAIN evidence :
          /\ evidence'[i].knowledge_pattern_id # NULL =>
               evidence'[i].knowledge_pattern_id \in GraphKeys(graph)
          /\ evidence'[i].coding_standard_id # NULL =>
               evidence'[i].coding_standard_id \in GraphKeys(graph)
     /\ \A i \in DOMAIN links' \ DOMAIN links :
          links'[i].knowledge_id \in GraphKeys(graph)]_vars

\* the roles that may run a raw query
Privileged == {"admin", "lead"}

C28_PerCollectionDegradation ==
  [][(resp'.op = "search_knowledge" /\ resp'.request.query # NULL) =>
       /\ resp'.status = 200
       /\ \A c \in DOMAIN resp'.results :
            resp'.results[c] =
              IF c \in resp'.failed THEN {}
              ELSE {doc \in graph : doc.collection = c
                                      /\ Contains(doc, resp'.request.query)}]_vars

\* C28 witness: one collection failed and another returned a document.
C28_Witness ==
  /\ resp.op = "search_knowledge" /\ resp.status = 200
  /\ \E c, d \in DOMAIN resp.results :
       c \in resp.failed /\ d \notin resp.failed /\ resp.results[d] # {}
  /\ \E doc \in graph : doc.collection \in resp.failed
                           /\ Contains(doc, resp.request.query)

\* C29: no error response carries the store's error text.
C29_NoStoreErrorText ==
  (resp.op \in {"raw_query", "search_knowledge", "health"} /\ resp.status >= 400)
    => resp.detail = NULL

\* C26: complianceMetrics aggregates, whatever the caller supplies, only the
\* evidence rows of the caller's own team: every total is the number of the
\* team's rows of that category in the requested dates.
C26_MetricsOwnTeam ==
  resp.op = "metrics" =>
    \A k \in DOMAIN resp.metrics :
      resp.metrics[k].total_verifications =
        Cardinality({i \in DOMAIN evidence :
          /\ evidence[i].team_id = UserTeam(resp.user)
          /\ evidence[i].team_id # NULL
          /\ evidence[i].task_category = resp.metrics[k].task_category
          /\ resp.q.from_date # NONE => evidence[i].created_at >= resp.q.from_date
          /\ resp.q.to_date # NONE => evidence[i].created_at <= resp.q.to_date})

\* C27: a legacy submission stores the caller's user_id and project_id verbatim,
\* whether or not they name a user or a project, in storage whose columns are
\* those of the authenticated path's table.
C27_LegacyVerbatimCompatible ==
  (resp.op = "legacy_submit" /\ resp.status = 201) =>
    /\ resp.evidence[1].user_id = resp.body.user_id
    /\ resp.evidence[1].project_id = resp.body.project_id
    /\ \E i \in DOMAIN legacy : legacy[i] = resp.evidence[1]
    /\ \A c \in DOMAIN LegacyColumns : LegacyColumns[c] = V2Columns[c]

====
